---- MODULE Spec2Model ----
(***************************************************************************)
(* The AVL multimap of package avl: a Tree handle over heap-allocated      *)
(* nodes (key, value slice, left, right, cached height).  The heap is a    *)
(* function from node addresses to node records, so that the in-place      *)
(* pointer updates of insert, delete and the rotations are modelled as the *)
(* code performs them.                                                     *)
(***************************************************************************)
EXTENDS Integers, Sequences, FiniteSets, TLC

\* ---------------------------------------------------------------- bounds
\* Spec: keys 1..MaxKey, values "a" and "b".
MaxKey == 3

\* The tree holds at most MaxExtra values beyond the first one of each key.
MaxExtra == 1

\* SpecShape: keys 1..MaxShapeKey, one value.
MaxShapeKey == 7

\* SpecHist, SpecTrip, SpecRead, SpecSub and SpecAlias: keys 1..MaxHistKey,
\* one value.
MaxHistKey == 3

\* SpecRot: at most MaxTrace Insert calls on a new tree.
MaxTrace == 3

\* SpecAlias and SpecAll: at most MaxAliasOps Insert and Delete calls while
\* two handles are held.
MaxAliasOps == 2

\* SpecLine: the number of free characters in the middle of a line
MaxLine == 2

\* SpecGlue: the rows the glue reads, and the calendars they come from
MaxRows == 4

MaxCals == 2

max(a, b) == IF a >= b THEN a ELSE b

Keys == 1..MaxKey

ShapeKeys == 1..MaxShapeKey

HistKeys == 1..MaxHistKey

AllKeys == 1..max(MaxKey, max(MaxShapeKey, MaxHistKey))

\* SpecRot: the keys of the rotation scenarios.
RotKeys == {10, 20, 30}

RefKeys == AllKeys \cup RotKeys

Values == {"a", "b"}

\* ------------------------------------------------------------------ heap
\* The nil pointer.
Nil == 0

\* The result of a call that does not return: log.Fatal in updateHeight, or
\* a nil dereference in a rotation or in minValueNode.
Fatal == -1

\* Node addresses.  One handle never reaches more than one node per key.
NodeIds == AllKeys

\* An address that holds no live node.
FreeNode == [key |-> 0, value |-> <<>>, left |-> Nil, right |-> Nil, height |-> 0]

EmptyHeap == [i \in NodeIds |-> FreeNode]

\* heap, root: the nodes and t.root.  sub, hasSub: the root of the handle the
\* last SubTreeFromKey call returned, and whether it returned one.  crashed:
\* the process has ended in log.Fatal or a panic.  out: what the last read
\* operation returned.  ref, everInserted, everDeleted, lastOp, trace: the
\* history of the calls; what trace records is said at the specification that
\* writes it.
VARIABLES heap, root, sub, hasSub, crashed, out, ref, everInserted, everDeleted,
          lastOp, trace

\* The calendar side.  glue: the variables of the loop that reads calendar
\* rows and fills the tree.  arg, ret: the argument a function of package ics
\* was called with and what it returned.
VARIABLES glue, arg, ret

icsVars == <<glue, arg, ret>>

vars == <<heap, root, sub, hasSub, crashed, out, ref, everInserted, everDeleted,
          lastOp, trace, glue, arg, ret>>

RECURSIVE insert(_, _, _, _)
RECURSIVE delete(_, _, _)
RECURSIVE find(_, _, _)
RECURSIVE findNode(_, _, _)
RECURSIVE getSize(_, _)
RECURSIVE minValueNode(_, _)
RECURSIVE Preorder(_, _)
RECURSIVE Dedup(_)
RECURSIVE Height(_, _)
RECURSIVE isBST(_, _, _, _)
RECURSIVE InOrder(_, _)
RECURSIVE traverseString(_, _, _)
RECURSIVE Digits(_)
RECURSIVE PathKeys(_, _, _)
RECURSIVE validateAVL(_, _)

\* ------------------------------------------------------------ node layer
\* &node{key: key, value: []V{value}, height: 1} at a fresh address.
createNode(h, key, value) ==
    LET id == CHOOSE i \in NodeIds :
                  /\ h[i] = FreeNode
                  /\ \A j \in NodeIds : j < i => h[j] # FreeNode
    IN  [h |-> [h EXCEPT ![id] = [key |-> key, value |-> <<value>>,
                                  left |-> Nil, right |-> Nil, height |-> 1]],
         r |-> id]

getHeight(h, n) == IF n = Nil THEN 0 ELSE h[n].height

\* updateHeight that looks at the left child only.
updateHeightLeftOnly(h, n) ==
    [h EXCEPT ![n].height = 1 + getHeight(h, h[n].left)]

\* n # Nil; the nil receiver (log.Fatal) is decided by the callers below.
updateHeight(h, n) ==
    [h EXCEPT ![n].height = 1 + max(getHeight(h, h[n].left), getHeight(h, h[n].right))]

balanceFactor(h, n) ==
    IF n = Nil THEN 0
    ELSE getHeight(h, h[n].left) - getHeight(h, h[n].right)

\* rotateRight with the new root's height recomputed before the demoted node's.
rotateRightStale(h, y) ==
    LET x == h[y].left IN
    IF x = Nil THEN [h |-> h, r |-> Fatal]
    ELSE LET T2 == h[x].right
             h1 == [h EXCEPT ![x].right = y, ![y].left = T2]
             h2 == updateHeight(h1, x)
             h3 == updateHeight(h2, y)
         IN  [h |-> h3, r |-> x]

rotateRight(h, y) ==
    LET x == h[y].left IN
    IF x = Nil THEN [h |-> h, r |-> Fatal]
    ELSE LET T2 == h[x].right
             h1 == [h EXCEPT ![x].right = y, ![y].left = T2]
             h2 == updateHeight(h1, y)
             h3 == updateHeight(h2, x)
         IN  [h |-> h3, r |-> x]

\* rotateLeft that returns the demoted node, as an earlier version did.
rotateLeftReturnsX(h, x) ==
    LET y == h[x].right IN
    IF y = Nil THEN [h |-> h, r |-> Fatal]
    ELSE LET T2 == h[y].left
             h1 == [h EXCEPT ![y].left = x, ![x].right = T2]
             h2 == updateHeight(h1, x)
             h3 == updateHeight(h2, y)
         IN  [h |-> h3, r |-> x]

rotateLeft(h, x) ==
    LET y == h[x].right IN
    IF y = Nil THEN [h |-> h, r |-> Fatal]
    ELSE LET T2 == h[y].left
             h1 == [h EXCEPT ![y].left = x, ![x].right = T2]
             h2 == updateHeight(h1, x)
             h3 == updateHeight(h2, y)
         IN  [h |-> h3, r |-> y]

\* balance with a single rotation where the left-right and right-left cases
\* need a double one.
balanceSingle(h0, n) ==
    IF n = Nil THEN [h |-> h0, r |-> Fatal]
    ELSE
    LET h  == updateHeight(h0, n)
        bf == balanceFactor(h, n)
    IN  IF bf > 1 THEN rotateRight(h, n)
        ELSE IF bf < -1 THEN rotateLeft(h, n)
        ELSE [h |-> h, r |-> n]

\* balance that rotates as soon as one side is higher.
balanceEager(h0, n) ==
    IF n = Nil THEN [h |-> h0, r |-> Fatal]
    ELSE
    LET h  == updateHeight(h0, n)
        bf == balanceFactor(h, n)
    IN  IF bf > 0 /\ balanceFactor(h, h[n].left) >= 0
        THEN rotateRight(h, n)
        ELSE IF bf > 0 /\ balanceFactor(h, h[n].left) < 0
        THEN LET s == rotateLeft(h, h[n].left) IN
             IF s.r = Fatal THEN s
             ELSE rotateRight([s.h EXCEPT ![n].left = s.r], n)
        ELSE IF bf < 0 /\ balanceFactor(h, h[n].right) <= 0
        THEN rotateLeft(h, n)
        ELSE IF bf < 0 /\ balanceFactor(h, h[n].right) > 0
        THEN LET s == rotateRight(h, h[n].right) IN
             IF s.r = Fatal THEN s
             ELSE rotateLeft([s.h EXCEPT ![n].right = s.r], n)
        ELSE [h |-> h, r |-> n]

\* balance that recomputes the height and never rotates.
balanceNoRotation(h0, n) ==
    IF n = Nil THEN [h |-> h0, r |-> Fatal]
    ELSE [h |-> updateHeight(h0, n), r |-> n]

\* balance whose right-left case rotates the right child to the left, as an
\* earlier version did.
balanceRightLeftWrong(h0, n) ==
    IF n = Nil THEN [h |-> h0, r |-> Fatal]
    ELSE
    LET h  == updateHeight(h0, n)
        bf == balanceFactor(h, n)
    IN  IF bf > 1 /\ balanceFactor(h, h[n].left) >= 0
        THEN rotateRight(h, n)
        ELSE IF bf > 1 /\ balanceFactor(h, h[n].left) < 0
        THEN LET s == rotateLeft(h, h[n].left) IN
             IF s.r = Fatal THEN s
             ELSE rotateRight([s.h EXCEPT ![n].left = s.r], n)
        ELSE IF bf < -1 /\ balanceFactor(h, h[n].right) <= 0
        THEN rotateLeft(h, n)
        ELSE IF bf < -1 /\ balanceFactor(h, h[n].right) > 0
        THEN LET s == rotateLeft(h, h[n].right) IN
             IF s.r = Fatal THEN s
             ELSE rotateLeft([s.h EXCEPT ![n].right = s.r], n)
        ELSE [h |-> h, r |-> n]

\* balance whose left-heavy cases split at 0 the other way: the double
\* rotation also when the left child has balance factor 0.
balanceLeftZeroDouble(h0, n) ==
    IF n = Nil THEN [h |-> h0, r |-> Fatal]
    ELSE
    LET h  == updateHeight(h0, n)
        bf == balanceFactor(h, n)
    IN  IF bf > 1 /\ balanceFactor(h, h[n].left) > 0
        THEN rotateRight(h, n)
        ELSE IF bf > 1 /\ balanceFactor(h, h[n].left) <= 0
        THEN LET s == rotateLeft(h, h[n].left) IN
             IF s.r = Fatal THEN s
             ELSE rotateRight([s.h EXCEPT ![n].left = s.r], n)
        ELSE IF bf < -1 /\ balanceFactor(h, h[n].right) <= 0
        THEN rotateLeft(h, n)
        ELSE IF bf < -1 /\ balanceFactor(h, h[n].right) > 0
        THEN LET s == rotateRight(h, h[n].right) IN
             IF s.r = Fatal THEN s
             ELSE rotateLeft([s.h EXCEPT ![n].right = s.r], n)
        ELSE [h |-> h, r |-> n]

balance(h0, n) ==
    IF n = Nil THEN [h |-> h0, r |-> Fatal]
    ELSE
    LET h  == updateHeight(h0, n)
        bf == balanceFactor(h, n)
    IN  IF bf > 1 /\ balanceFactor(h, h[n].left) >= 0
        THEN rotateRight(h, n)
        ELSE IF bf > 1 /\ balanceFactor(h, h[n].left) < 0
        THEN LET s == rotateLeft(h, h[n].left) IN
             IF s.r = Fatal THEN s
             ELSE rotateRight([s.h EXCEPT ![n].left = s.r], n)
        ELSE IF bf < -1 /\ balanceFactor(h, h[n].right) <= 0
        THEN rotateLeft(h, n)
        ELSE IF bf < -1 /\ balanceFactor(h, h[n].right) > 0
        THEN LET s == rotateRight(h, h[n].right) IN
             IF s.r = Fatal THEN s
             ELSE rotateLeft([s.h EXCEPT ![n].right = s.r], n)
        ELSE [h |-> h, r |-> n]

\* insert that sends an already-present key into the right subtree, where it
\* becomes a second node.
insertDupNode(h, n, key, value) ==
    IF n = Nil THEN createNode(h, key, value)
    ELSE IF key < h[n].key
    THEN LET s == insert(h, h[n].left, key, value) IN
         IF s.r = Fatal THEN s
         ELSE balance([s.h EXCEPT ![n].left = s.r], n)
    ELSE LET s == insert(h, h[n].right, key, value) IN
         IF s.r = Fatal THEN s
         ELSE balance([s.h EXCEPT ![n].right = s.r], n)

\* insert with the value of an already-present key put in front.
insertPrepends(h, n, key, value) ==
    IF n = Nil THEN createNode(h, key, value)
    ELSE IF key < h[n].key
    THEN LET s == insert(h, h[n].left, key, value) IN
         IF s.r = Fatal THEN s
         ELSE balance([s.h EXCEPT ![n].left = s.r], n)
    ELSE IF key > h[n].key
    THEN LET s == insert(h, h[n].right, key, value) IN
         IF s.r = Fatal THEN s
         ELSE balance([s.h EXCEPT ![n].right = s.r], n)
    ELSE [h |-> [h EXCEPT ![n].value = <<value>> \o @], r |-> n]

insert(h, n, key, value) ==
    IF n = Nil THEN createNode(h, key, value)
    ELSE IF key < h[n].key
    THEN LET s == insert(h, h[n].left, key, value) IN
         IF s.r = Fatal THEN s
         ELSE balance([s.h EXCEPT ![n].left = s.r], n)
    ELSE IF key > h[n].key
    THEN LET s == insert(h, h[n].right, key, value) IN
         IF s.r = Fatal THEN s
         ELSE balance([s.h EXCEPT ![n].right = s.r], n)
    ELSE [h |-> [h EXCEPT ![n].value = Append(@, value)], r |-> n]

\* minValueNode without the descent to the leftmost node.
minValueNodeNoDescent(h, n) == n

minValueNode(h, n) ==
    IF n = Nil THEN Fatal
    ELSE IF h[n].left # Nil THEN minValueNode(h, h[n].left)
    ELSE n

\* delete that deletes the node's old key, not the successor's, from the
\* right subtree.
deleteKeepsSuccessor(h, n, key) ==
    IF n = Nil THEN [h |-> h, r |-> Nil]
    ELSE IF key < h[n].key
    THEN LET s == delete(h, h[n].left, key) IN
         IF s.r = Fatal THEN s
         ELSE balance([s.h EXCEPT ![n].left = s.r], n)
    ELSE IF key > h[n].key
    THEN LET s == delete(h, h[n].right, key) IN
         IF s.r = Fatal THEN s
         ELSE balance([s.h EXCEPT ![n].right = s.r], n)
    ELSE IF h[n].left = Nil THEN [h |-> h, r |-> h[n].right]
    ELSE IF h[n].right = Nil THEN [h |-> h, r |-> h[n].left]
    ELSE LET temp == minValueNode(h, h[n].right)
             h1   == [h EXCEPT ![n].key = h[temp].key, ![n].value = h[temp].value]
             s    == delete(h1, h1[n].right, key)
         IN  IF s.r = Fatal THEN s
             ELSE balance([s.h EXCEPT ![n].right = s.r], n)

\* delete that copies the successor's key and leaves the node's values.
deleteNoValueCopy(h, n, key) ==
    IF n = Nil THEN [h |-> h, r |-> Nil]
    ELSE IF key < h[n].key
    THEN LET s == delete(h, h[n].left, key) IN
         IF s.r = Fatal THEN s
         ELSE balance([s.h EXCEPT ![n].left = s.r], n)
    ELSE IF key > h[n].key
    THEN LET s == delete(h, h[n].right, key) IN
         IF s.r = Fatal THEN s
         ELSE balance([s.h EXCEPT ![n].right = s.r], n)
    ELSE IF h[n].left = Nil THEN [h |-> h, r |-> h[n].right]
    ELSE IF h[n].right = Nil THEN [h |-> h, r |-> h[n].left]
    ELSE LET temp == minValueNode(h, h[n].right)
             h1   == [h EXCEPT ![n].key = h[temp].key]
             s    == delete(h1, h1[n].right, h1[temp].key)
         IN  IF s.r = Fatal THEN s
             ELSE balance([s.h EXCEPT ![n].right = s.r], n)

\* delete that returns the node without balance, as an earlier version did.
deleteNoBalance(h, n, key) ==
    IF n = Nil THEN [h |-> h, r |-> Nil]
    ELSE IF key < h[n].key
    THEN LET s == delete(h, h[n].left, key) IN
         IF s.r = Fatal THEN s
         ELSE [h |-> [s.h EXCEPT ![n].left = s.r], r |-> n]
    ELSE IF key > h[n].key
    THEN LET s == delete(h, h[n].right, key) IN
         IF s.r = Fatal THEN s
         ELSE [h |-> [s.h EXCEPT ![n].right = s.r], r |-> n]
    ELSE IF h[n].left = Nil THEN [h |-> h, r |-> h[n].right]
    ELSE IF h[n].right = Nil THEN [h |-> h, r |-> h[n].left]
    ELSE LET temp == minValueNode(h, h[n].right)
             h1   == [h EXCEPT ![n].key = h[temp].key, ![n].value = h[temp].value]
             s    == delete(h1, h1[n].right, h1[temp].key)
         IN  IF s.r = Fatal THEN s
             ELSE [h |-> [s.h EXCEPT ![n].right = s.r], r |-> n]

delete(h, n, key) ==
    IF n = Nil THEN [h |-> h, r |-> Nil]
    ELSE IF key < h[n].key
    THEN LET s == delete(h, h[n].left, key) IN
         IF s.r = Fatal THEN s
         ELSE balance([s.h EXCEPT ![n].left = s.r], n)
    ELSE IF key > h[n].key
    THEN LET s == delete(h, h[n].right, key) IN
         IF s.r = Fatal THEN s
         ELSE balance([s.h EXCEPT ![n].right = s.r], n)
    ELSE IF h[n].left = Nil THEN [h |-> h, r |-> h[n].right]
    ELSE IF h[n].right = Nil THEN [h |-> h, r |-> h[n].left]
    ELSE LET temp == minValueNode(h, h[n].right)
             h1   == [h EXCEPT ![n].key = h[temp].key, ![n].value = h[temp].value]
             s    == delete(h1, h1[n].right, h1[temp].key)
         IN  IF s.r = Fatal THEN s
             ELSE balance([s.h EXCEPT ![n].right = s.r], n)

get(h, n) == [k |-> h[n].key, v |-> h[n].value]

\* find that descends to the wrong side.
findSwapped(h, n, key) ==
    IF n = Nil THEN [v |-> <<>>, ok |-> FALSE]
    ELSE IF h[n].key = key THEN [v |-> h[n].value, ok |-> TRUE]
    ELSE IF key < h[n].key THEN find(h, h[n].right, key)
    ELSE find(h, h[n].left, key)

\* (nil, false) is the empty sequence and FALSE.
find(h, n, key) ==
    IF n = Nil THEN [v |-> <<>>, ok |-> FALSE]
    ELSE IF h[n].key = key THEN [v |-> h[n].value, ok |-> TRUE]
    ELSE IF key < h[n].key THEN find(h, h[n].left, key)
    ELSE find(h, h[n].right, key)

\* findNode that descends to the wrong side.
findNodeSwapped(h, n, key) ==
    IF n = Nil THEN [n |-> Nil, ok |-> FALSE]
    ELSE IF h[n].key = key THEN [n |-> n, ok |-> TRUE]
    ELSE IF key < h[n].key THEN findNode(h, h[n].right, key)
    ELSE findNode(h, h[n].left, key)

findNode(h, n, key) ==
    IF n = Nil THEN [n |-> Nil, ok |-> FALSE]
    ELSE IF h[n].key = key THEN [n |-> n, ok |-> TRUE]
    ELSE IF key < h[n].key THEN findNode(h, h[n].left, key)
    ELSE findNode(h, h[n].right, key)

contains(h, n, key) == find(h, n, key).ok

\* ------------------------------------------------------------------ text
\* A text is the sequence of its characters.
DigitChar == <<"0", "1", "2", "3", "4", "5", "6", "7", "8", "9">>

\* %v of a non-negative integer key: its decimal digits.
Digits(k) ==
    IF k < 10 THEN <<DigitChar[k + 1]>>
    ELSE Digits(k \div 10) \o <<DigitChar[(k % 10) + 1]>>

\* strings.TrimSuffix
TrimSuffix(str, suffix) ==
    IF /\ Len(str) >= Len(suffix)
       /\ SubSeq(str, Len(str) - Len(suffix) + 1, Len(str)) = suffix
    THEN SubSeq(str, 1, Len(str) - Len(suffix))
    ELSE str

\* sb is the builder's content; the result is its content afterwards.
traverseString(h, n, sb) ==
    IF n = Nil THEN sb
    ELSE LET l == traverseString(h, h[n].left, sb)
             m == l \o Digits(h[n].key) \o <<",", " ">>
         IN  traverseString(h, h[n].right, m)

\* String() without the removal of the last separator.
StringNoTrim(h, n) ==
    IF n = Nil THEN <<>>
    ELSE traverseString(h, n, <<"[">>) \o <<"]">>

String(h, n) ==
    IF n = Nil THEN <<>>
    ELSE TrimSuffix(traverseString(h, n, <<"[">>), <<",", " ">>) \o <<"]">>

\* getSize that counts the stored values, as earlier versions did.
getSizeCountsValues(h, n) ==
    IF n = Nil THEN 0
    ELSE Len(h[n].value) + getSize(h, h[n].left) + getSize(h, h[n].right)

getSize(h, n) ==
    IF n = Nil THEN 0
    ELSE 1 + getSize(h, h[n].left) + getSize(h, h[n].right)

\* ------------------------------------------------ addresses and garbage
\* The nodes reachable from n, parent first.
Preorder(h, n) ==
    IF n = Nil THEN <<>>
    ELSE <<n>> \o Preorder(h, h[n].left) \o Preorder(h, h[n].right)

Dedup(s) ==
    IF s = <<>> THEN <<>>
    ELSE LET t == Dedup(SubSeq(s, 1, Len(s) - 1)) IN
         IF \E i \in 1..Len(t) : t[i] = s[Len(s)] THEN t ELSE Append(t, s[Len(s)])

\* Go's collector frees what no handle reaches, and an address is not
\* observable: the live nodes are renumbered in the order the handles reach
\* them and every other address is free.  rs is the sequence of handle roots.
Collect(h, rs) ==
    LET RECURSIVE All(_)
        All(i) == IF i > Len(rs) THEN <<>> ELSE Preorder(h, rs[i]) \o All(i + 1)
        live   == {i \in 1..Len(rs) : rs[i] # Nil}
        order  == IF Cardinality(live) <= 1 THEN All(1) ELSE Dedup(All(1))
        ren    == [p \in NodeIds \cup {Nil} |->
                     IF \E i \in 1..Len(order) : order[i] = p
                     THEN CHOOSE i \in 1..Len(order) : order[i] = p
                     ELSE Nil]
    IN  [h  |-> [i \in NodeIds |->
                    IF i <= Len(order)
                    THEN [h[order[i]] EXCEPT !.left = ren[@], !.right = ren[@]]
                    ELSE FreeNode],
         rs |-> [i \in 1..Len(rs) |-> ren[rs[i]]]]

\* ------------------------------------------------------------ tree layer
TreeHeight == IF root = Nil THEN 0 ELSE getHeight(heap, root)

TreeSize == IF root = Nil THEN 0 ELSE getSize(heap, root)

TreeFind(key) ==
    IF root = Nil THEN [v |-> <<>>, ok |-> FALSE] ELSE find(heap, root, key)

TreeContains(key) == IF root = Nil THEN FALSE ELSE contains(heap, root, key)

\* Tree.String without the case of the empty tree.
TreeStringNoNilCase == String(heap, root)

TreeString == IF root = Nil THEN <<"[", "]">> ELSE String(heap, root)

\* The lines a call hands to log.Println; the logger's own header and line
\* end are not part of them.
\* node.Print
nodePrint(h, n) == IF n = Nil THEN <<>> ELSE <<String(h, n)>>

\* "Tried to print empty tree"
EmptyTreeLog ==
    <<"T", "r", "i", "e", "d", " ", "t", "o", " ", "p", "r", "i", "n",
      "t", " ", "e", "m", "p", "t", "y", " ", "t", "r", "e", "e">>

\* Tree.Print that leaves the empty tree to node.Print.
TreePrintNoGuard == nodePrint(heap, root)

\* Tree.Print
TreePrint == IF root = Nil THEN <<EmptyTreeLog>> ELSE nodePrint(heap, root)

\* Tree.Min that returns the root's key and values without the descent.
TreeMinOfRoot ==
    IF root = Nil THEN [k |-> 0, v |-> <<>>, ok |-> FALSE]
    ELSE LET g == get(heap, root) IN
         [k |-> g.k, v |-> g.v, ok |-> TRUE]

TreeMin ==
    IF root = Nil THEN [k |-> 0, v |-> <<>>, ok |-> FALSE]
    ELSE LET g == get(heap, minValueNode(heap, root)) IN
         [k |-> g.k, v |-> g.v, ok |-> TRUE]

\* The values stored beyond the first one of each key.
Extra == Cardinality(UNION {{<<k, i>> : i \in 2..Len(ref[k])} : k \in RefKeys})

\* No read operation has returned since the last Insert or Delete.
NoOut == [op |-> "none"]

\* New()
InitTree ==
    /\ heap = EmptyHeap
    /\ root = Nil
    /\ crashed = FALSE
    /\ sub = Nil
    /\ hasSub = FALSE
    /\ out = NoOut
    /\ ref = [k \in RefKeys |-> <<>>]
    /\ everInserted = {}
    /\ everDeleted = {}
    /\ lastOp = [op |-> "new", vals |-> 0, children |-> 0]
    /\ trace = <<>>

\* No row read, no function of package ics called.
NoGlue == [op |-> "none"]

NoCall == [op |-> "none"]

Init ==
    /\ InitTree
    /\ glue = NoGlue
    /\ arg = NoCall
    /\ ret = NoCall

\* t.root = t.root.insert(key, value)
TreeInsert(key, value) ==
    LET s == insert(heap, root, key, value) IN
    IF s.r = Fatal
    THEN /\ crashed' = TRUE
         /\ UNCHANGED <<heap, root, sub>>
    ELSE LET c == Collect(s.h, <<s.r, sub>>) IN
         /\ heap' = c.h
         /\ root' = c.rs[1]
         /\ sub' = c.rs[2]
         /\ crashed' = FALSE

\* Tree.Delete that drops the subtree root delete returns.
TreeDeleteNoRebind(key) ==
    IF root = Nil
    THEN UNCHANGED <<heap, root, sub, crashed>>
    ELSE LET s == delete(heap, root, key) IN
         IF s.r = Fatal
         THEN /\ crashed' = TRUE
              /\ UNCHANGED <<heap, root, sub>>
         ELSE LET c == Collect(s.h, <<root, sub>>) IN
              /\ heap' = c.h
              /\ root' = c.rs[1]
              /\ sub' = c.rs[2]
              /\ crashed' = FALSE

\* if t.root == nil { return }; t.root = t.root.delete(key)
TreeDelete(key) ==
    IF root = Nil
    THEN UNCHANGED <<heap, root, sub, crashed>>
    ELSE LET s == delete(heap, root, key) IN
         IF s.r = Fatal
         THEN /\ crashed' = TRUE
              /\ UNCHANGED <<heap, root, sub>>
         ELSE LET c == Collect(s.h, <<s.r, sub>>) IN
              /\ heap' = c.h
              /\ root' = c.rs[1]
              /\ sub' = c.rs[2]
              /\ crashed' = FALSE

\* The children of the node that holds key: 0, 1 or 2.
Children(key) ==
    LET n == findNode(heap, root, key).n IN
    IF n = Nil THEN 0 ELSE
    (IF heap[n].left = Nil THEN 0 ELSE 1) + (IF heap[n].right = Nil THEN 0 ELSE 1)

\* A call of Tree.Insert, with the reference map updated beside it.  lastOp
\* records the call: the number of values the key held before it and, for a
\* Delete, the number of children of the key's node.
Insert(key, value) ==
    /\ ~crashed
    /\ ref[key] # <<>> => Extra < MaxExtra
    /\ ref' = [ref EXCEPT ![key] = Append(@, value)]
    /\ lastOp' = [op |-> "insert", vals |-> Len(ref[key]), children |-> 0]
    /\ out' = NoOut
    /\ hasSub' = hasSub
    /\ UNCHANGED icsVars
    /\ TreeInsert(key, value)

\* A call of Tree.Delete, with the reference map updated beside it.
Delete(key) ==
    /\ ~crashed
    /\ ref' = [ref EXCEPT ![key] = <<>>]
    /\ lastOp' = [op |-> "delete", vals |-> Len(ref[key]), children |-> Children(key)]
    /\ out' = NoOut
    /\ hasSub' = hasSub
    /\ UNCHANGED icsVars
    /\ TreeDelete(key)

Next ==
    \/ \E key \in Keys, value \in Values :
           Insert(key, value) /\ UNCHANGED <<everInserted, everDeleted, trace>>
    \/ \E key \in Keys :
           Delete(key) /\ UNCHANGED <<everInserted, everDeleted, trace>>

Spec == Init /\ [][Next]_vars

\* Many keys, one value, and one key at a time that holds two values: the
\* shapes that need more than MaxKey nodes.
NextShape ==
    \/ \E key \in ShapeKeys :
           /\ ref[key] # <<>> => Extra = 0
           /\ Insert(key, "a")
           /\ UNCHANGED <<everInserted, everDeleted, trace>>
    \/ \E key \in ShapeKeys :
           Delete(key) /\ UNCHANGED <<everInserted, everDeleted, trace>>

SpecShape == Init /\ [][NextShape]_vars

\* The history of the keys: ever inserted, ever deleted while present.
NextHist ==
    \/ \E key \in HistKeys :
           /\ Insert(key, "a")
           /\ everInserted' = everInserted \cup {key}
           /\ everDeleted' = everDeleted
           /\ trace' = trace
    \/ \E key \in HistKeys :
           /\ Delete(key)
           /\ everInserted' = everInserted
           /\ everDeleted' = IF ref[key] # <<>> THEN everDeleted \cup {key}
                             ELSE everDeleted
           /\ trace' = trace

SpecHist == Init /\ [][NextHist]_vars

\* The first MaxTrace Insert calls on a new tree, over the keys of the
\* rotation tests; trace is the sequence of the keys inserted.
NextRot ==
    \E key \in RotKeys, value \in Values :
        /\ Len(trace) < MaxTrace
        /\ Insert(key, value)
        /\ trace' = Append(trace, key)
        /\ UNCHANGED <<everInserted, everDeleted>>

SpecRot == Init /\ [][NextRot]_vars

\* The insertion orders of the four rotation tests.
RotOrders == {<<30, 20, 10>>, <<10, 20, 30>>, <<30, 10, 20>>, <<10, 30, 20>>}

\* What Size(), Height(), String() and Contains return in the current state.
Observe ==
    [size     |-> TreeSize,
     height   |-> TreeHeight,
     string   |-> TreeString,
     contains |-> {k \in RefKeys : TreeContains(k)}]

\* Insert and Delete calls where trace remembers the last Insert: its key,
\* what the tree showed before it, and whether the next call was the Delete
\* of that key.
NextTrip ==
    \/ \E key \in HistKeys :
           /\ Insert(key, "a")
           /\ trace' = <<[key |-> key, was |-> Observe, deleted |-> FALSE]>>
           /\ UNCHANGED <<everInserted, everDeleted>>
    \/ \E key \in HistKeys :
           /\ Delete(key)
           /\ trace' = IF trace # <<>> /\ ~trace[1].deleted /\ trace[1].key = key
                       THEN <<[trace[1] EXCEPT !.deleted = TRUE]>>
                       ELSE <<>>
           /\ UNCHANGED <<everInserted, everDeleted>>

SpecTrip == Init /\ [][NextTrip]_vars

\* The read operations.  A call leaves every variable but out as it was; out
\* records the operation, its argument (0 where it has none), its result, and
\* whether it is the first call or a repetition of the call before it.
Read(op, key, res) ==
    /\ ~crashed
    /\ out' = [op |-> op, key |-> key, res |-> res,
               n |-> IF out.op = op /\ out.key = key THEN 2 ELSE 1]
    /\ UNCHANGED <<heap, root, sub, hasSub, crashed, ref, everInserted,
                   everDeleted, lastOp, trace, glue, arg, ret>>

CallFind(key) == Read("Find", key, TreeFind(key))

CallContains(key) == Read("Contains", key, TreeContains(key))

\* A call of Min that also deletes the key it returns.
CallMinDeletes ==
    /\ ~crashed
    /\ out' = [op |-> "Min", key |-> 0, res |-> TreeMin,
               n |-> IF out.op = "Min" THEN 2 ELSE 1]
    /\ ref' = [ref EXCEPT ![TreeMin.k] = <<>>]
    /\ TreeDelete(TreeMin.k)
    /\ UNCHANGED <<hasSub, everInserted, everDeleted, lastOp, trace, glue, arg,
                   ret>>

CallMin == Read("Min", 0, TreeMin)

CallString == Read("String", 0, TreeString)

CallSize == Read("Size", 0, TreeSize)

CallHeight == Read("Height", 0, TreeHeight)

CallPrint == Read("Print", 0, TreePrint)

ReadStep ==
    \/ \E key \in HistKeys : CallFind(key)
    \/ \E key \in HistKeys : CallContains(key)
    \/ CallMin
    \/ CallString
    \/ CallSize
    \/ CallHeight

\* Insert, Delete, the read operations and Print in any order.
NextRead ==
    \/ \E key \in HistKeys :
           Insert(key, "a") /\ UNCHANGED <<everInserted, everDeleted, trace>>
    \/ \E key \in HistKeys :
           Delete(key) /\ UNCHANGED <<everInserted, everDeleted, trace>>
    \/ ReadStep
    \/ CallPrint

SpecRead == Init /\ [][NextRead]_vars

\* sub, ok := t.SubTreeFromKey(key): the handle the caller held before is
\* dropped.  out records the call.
SubTreeFromKey(key) ==
    /\ ~crashed
    /\ LET f  == IF root = Nil THEN [n |-> Nil, ok |-> FALSE]
                 ELSE findNode(heap, root, key)
           ok == f.ok /\ f.n # Nil
           c  == Collect(heap, <<root, IF ok THEN f.n ELSE Nil>>)
       IN  /\ heap' = c.h
           /\ root' = c.rs[1]
           /\ sub' = c.rs[2]
           /\ hasSub' = ok
    /\ out' = [op |-> "SubTreeFromKey", key |-> key]
    /\ UNCHANGED <<crashed, ref, everInserted, everDeleted, lastOp, trace, glue,
                   arg, ret>>

\* sub = nil: the caller lets the handle go.
DropSub ==
    /\ ~crashed
    /\ hasSub
    /\ LET c == Collect(heap, <<root, Nil>>) IN
           /\ heap' = c.h
           /\ root' = c.rs[1]
           /\ sub' = c.rs[2]
           /\ hasSub' = FALSE
    /\ out' = NoOut
    /\ UNCHANGED <<crashed, ref, everInserted, everDeleted, lastOp, trace, glue,
                   arg, ret>>

\* Insert and Delete on t while the caller holds no other handle, and
\* SubTreeFromKey.
NextSub ==
    \/ \E key \in HistKeys :
           /\ sub = Nil
           /\ Insert(key, "a")
           /\ UNCHANGED <<everInserted, everDeleted, trace>>
    \/ \E key \in HistKeys :
           /\ sub = Nil
           /\ Delete(key)
           /\ UNCHANGED <<everInserted, everDeleted, trace>>
    \/ \E key \in HistKeys : SubTreeFromKey(key)
    \/ DropSub

SpecSub == Init /\ [][NextSub]_vars

\* sub.root = sub.root.insert(key, value), on the handle SubTreeFromKey
\* returned.
SubInsert(key, value) ==
    /\ ~crashed
    /\ hasSub
    /\ LET s == insert(heap, sub, key, value) IN
       IF s.r = Fatal
       THEN /\ crashed' = TRUE
            /\ UNCHANGED <<heap, root, sub>>
       ELSE LET c == Collect(s.h, <<root, s.r>>) IN
            /\ heap' = c.h
            /\ root' = c.rs[1]
            /\ sub' = c.rs[2]
            /\ crashed' = FALSE
    /\ out' = NoOut
    /\ UNCHANGED <<hasSub, ref, everInserted, everDeleted, lastOp, glue, arg, ret>>

\* if sub.root == nil { return }; sub.root = sub.root.delete(key)
SubDelete(key) ==
    /\ ~crashed
    /\ hasSub
    /\ IF sub = Nil
       THEN UNCHANGED <<heap, root, sub, crashed>>
       ELSE LET s == delete(heap, sub, key) IN
            IF s.r = Fatal
            THEN /\ crashed' = TRUE
                 /\ UNCHANGED <<heap, root, sub>>
            ELSE LET c == Collect(s.h, <<root, s.r>>) IN
                 /\ heap' = c.h
                 /\ root' = c.rs[1]
                 /\ sub' = c.rs[2]
                 /\ crashed' = FALSE
    /\ out' = NoOut
    /\ UNCHANGED <<hasSub, ref, everInserted, everDeleted, lastOp, glue, arg, ret>>

SubContains(key) == IF sub = Nil THEN FALSE ELSE contains(heap, sub, key)

SubFind(key) ==
    IF sub = Nil THEN [v |-> <<>>, ok |-> FALSE] ELSE find(heap, sub, key)

\* A tree of one value per key is built through t, SubTreeFromKey returns a
\* second handle, and up
\* to MaxAliasOps Insert and Delete calls follow through either handle; trace
\* lists the handles of those calls.  Every value is "a": node.delete's
\* n.value = temp.value lets two nodes share one backing array, which equal
\* values keep unobservable.
NextAlias ==
    \/ \E key \in HistKeys :
           /\ ~hasSub
           /\ ref[key] = <<>>
           /\ Insert(key, "a")
           /\ UNCHANGED <<everInserted, everDeleted, trace>>
    \/ \E key \in HistKeys :
           /\ ~hasSub
           /\ Delete(key)
           /\ UNCHANGED <<everInserted, everDeleted, trace>>
    \/ \E key \in HistKeys :
           /\ ~hasSub
           /\ SubTreeFromKey(key)
    \/ \E key \in HistKeys :
           /\ hasSub /\ Len(trace) < MaxAliasOps
           /\ Insert(key, "a")
           /\ trace' = Append(trace, "t")
           /\ UNCHANGED <<everInserted, everDeleted>>
    \/ \E key \in HistKeys :
           /\ hasSub /\ Len(trace) < MaxAliasOps
           /\ Delete(key)
           /\ trace' = Append(trace, "t")
           /\ UNCHANGED <<everInserted, everDeleted>>
    \/ \E key \in HistKeys :
           /\ Len(trace) < MaxAliasOps
           /\ SubInsert(key, "a")
           /\ trace' = Append(trace, "sub")
    \/ \E key \in HistKeys :
           /\ Len(trace) < MaxAliasOps
           /\ SubDelete(key)
           /\ trace' = Append(trace, "sub")

SpecAlias == Init /\ [][NextAlias]_vars

\* Every public operation: the calls of SpecAlias, and the read operations
\* and Print while t is the only handle.
NextAll ==
    \/ NextAlias
    \/ ~hasSub /\ ReadStep
    \/ ~hasSub /\ CallPrint

SpecAll == Init /\ [][NextAll]_vars

\* --------------------------------------------------------- calendar text
\* A Go string is a sequence of one-character strings; the characters that
\* cannot be written inside a string are the tokens DQ (double quote), LF, CR
\* and TAB.
DQ == "DQ"

LF == "LF"

CR == "CR"

TAB == "TAB"

lowerLetters == <<"a", "b", "c", "d", "e", "f", "g", "h", "i", "j", "k", "l", "m", "n", "o", "p", "q", "r", "s", "t", "u", "v", "w", "x", "y", "z">>

upperLetters == <<"A", "B", "C", "D", "E", "F", "G", "H", "I", "J", "K", "L", "M", "N", "O", "P", "Q", "R", "S", "T", "U", "V", "W", "X", "Y", "Z">>

\* strings.ToUpper, one character
ToUpperChar(c) ==
  IF \E i \in 1..Len(lowerLetters) : lowerLetters[i] = c
  THEN upperLetters[CHOOSE i \in 1..Len(lowerLetters) : lowerLetters[i] = c]
  ELSE c

ToUpper(s) == [i \in 1..Len(s) |-> ToUpperChar(s[i])]

\* the white space strings.TrimSpace removes
SpaceChars == {" ", TAB, LF, CR}

\* strings.TrimRight(s, cutset): drop the longest suffix made of cutset characters
TrimRight(s, cutset) ==
  LET keep == {i \in 1..Len(s) : s[i] \notin cutset}
  IN  IF keep = {} THEN <<>>
      ELSE SubSeq(s, 1, CHOOSE i \in keep : \A j \in keep : j <= i)

\* strings.TrimSpace(s): drop leading and trailing white space
TrimSpace(s) ==
  LET keep == {i \in 1..Len(s) : s[i] \notin SpaceChars}
  IN  IF keep = {} THEN <<>>
      ELSE SubSeq(s, CHOOSE i \in keep : \A j \in keep : i <= j,
                     CHOOSE i \in keep : \A j \in keep : j <= i)

\* strings.IndexByte(s, c), counted from 1; 0 where Go returns -1
IndexByte(s, c) ==
  IF \E i \in 1..Len(s) : s[i] = c
  THEN CHOOSE i \in 1..Len(s) : s[i] = c /\ \A j \in 1..(i - 1) : s[j] # c
  ELSE 0

\* ------------------------------------------------------- calendar records
UnknownProperty == -1

UnknownComponent == -1

PropCalscale == 0

PropSummary == 15

PropDtend == 17

PropDtstart == 19

PropXWRCalname == 60

ComponentVCalendar == 0

ComponentVEvent == 1

\* the entries of the property table the modelled lines can hit; every other
\* name the model feeds in is absent from the table of the source as well
propertyByName ==
  { <<<<"S", "U", "M", "M", "A", "R", "Y">>, PropSummary>>,
    <<<<"D", "T", "E", "N", "D">>, PropDtend>>,
    <<<<"D", "T", "S", "T", "A", "R", "T">>, PropDtstart>>,
    <<<<"X", "-", "W", "R", "-", "C", "A", "L", "N", "A", "M", "E">>, PropXWRCalname>> }

componentByName ==
  { <<<<"V", "C", "A", "L", "E", "N", "D", "A", "R">>, ComponentVCalendar>>,
    <<<<"V", "E", "V", "E", "N", "T">>, ComponentVEvent>> }

\* m[name] of a Go map: ok says whether the name is a key
lookup(table, name) ==
  IF \E e \in table : e[1] = name
  THEN [ok |-> TRUE, v |-> (CHOOSE e \in table : e[1] = name)[2]]
  ELSE [ok |-> FALSE, v |-> 0]

\* ParsedLine{}: the zero value returned next to an error
ZeroParsedLine ==
  [Property |-> PropCalscale, IsBegin |-> FALSE, IsEnd |-> FALSE,
   Component |-> ComponentVCalendar, RawName |-> <<>>, Params |-> <<>>,
   ParsedParams |-> <<>>, Value |-> <<>>, IsUnknown |-> FALSE]

NoError == "nil"

\* mutant of splitOnFirstUnquotedColon: quotes are not tracked
splitOnFirstColon(s) ==
  LET i == IndexByte(s, ":")
  IN  IF i = 0 THEN [before |-> <<>>, after |-> <<>>, found |-> FALSE]
      ELSE [before |-> SubSeq(s, 1, i - 1), after |-> SubSeq(s, i + 1, Len(s)),
            found |-> TRUE]

\* splitOnFirstUnquotedColon: inQuote[i] is the flag when the loop reaches s[i]
splitOnFirstUnquotedColon(s) ==
  LET inQuote[i \in 1..(Len(s) + 1)] ==
        IF i = 1 THEN FALSE
        ELSE IF s[i - 1] = DQ THEN ~inQuote[i - 1] ELSE inQuote[i - 1]
      hits == {i \in 1..Len(s) : s[i] = ":" /\ ~inQuote[i]}
  IN  IF hits = {} THEN [before |-> <<>>, after |-> <<>>, found |-> FALSE]
      ELSE LET i == CHOOSE h \in hits : \A g \in hits : h <= g
           IN  [before |-> SubSeq(s, 1, i - 1),
                after |-> SubSeq(s, i + 1, Len(s)), found |-> TRUE]

\* splitUnquoted: st[i] is the loop state (parts, start, inQuote) before s[i]
splitUnquoted(s, sep) ==
  LET st[i \in 1..(Len(s) + 1)] ==
        IF i = 1 THEN [parts |-> <<>>, start |-> 1, inQuote |-> FALSE]
        ELSE LET p == st[i - 1]
                 c == s[i - 1]
             IN  IF c = DQ THEN [p EXCEPT !.inQuote = ~p.inQuote]
                 ELSE IF c = sep /\ ~p.inQuote
                      THEN [p EXCEPT !.parts = Append(p.parts, SubSeq(s, p.start, i - 2)),
                                     !.start = i]
                      ELSE p
      fin == st[Len(s) + 1]
  IN  Append(fin.parts, SubSeq(s, fin.start, Len(s)))

\* parseParams: acc[i] is params after the first i parts
parseParams(raw) ==
  LET parts == splitUnquoted(raw, ";")
      acc[i \in 0..Len(parts)] ==
        IF i = 0 THEN <<>>
        ELSE LET part == TrimSpace(parts[i])
                 idx == IndexByte(part, "=")
             IN  IF part = <<>> THEN acc[i - 1]
                 ELSE IF idx = 0
                      THEN Append(acc[i - 1], [Key |-> ToUpper(part), Value |-> <<>>])
                      ELSE Append(acc[i - 1],
                                  [Key |-> ToUpper(TrimSpace(SubSeq(part, 1, idx - 1))),
                                   Value |-> TrimSpace(SubSeq(part, idx + 1, Len(part)))])
  IN  acc[Len(parts)]

ParseLine(line0) ==
  LET line == TrimRight(line0, {CR, LF})
      sp == splitOnFirstUnquotedColon(line)
      idx == IndexByte(sp.before, ";")
      rawName == ToUpper(TrimSpace(IF idx >= 1 THEN SubSeq(sp.before, 1, idx - 1)
                                   ELSE sp.before))
      rawParams == IF idx >= 1 THEN SubSeq(sp.before, idx + 1, Len(sp.before)) ELSE <<>>
      result == [ZeroParsedLine EXCEPT !.Property = UnknownProperty,
                                       !.Component = UnknownComponent,
                                       !.RawName = rawName, !.Params = rawParams,
                                       !.Value = sp.after,
                                       !.ParsedParams = IF rawParams # <<>>
                                                        THEN parseParams(rawParams) ELSE <<>>]
      comp == lookup(componentByName, ToUpper(TrimSpace(sp.after)))
      prop == lookup(propertyByName, rawName)
  IN  IF line = <<>> THEN [pl |-> ZeroParsedLine, err |-> "ics: empty line"]
      ELSE IF ~sp.found
      THEN [pl |-> ZeroParsedLine, err |-> "ics: no ':' separator found in line"]
      ELSE IF rawName = <<"B", "E", "G", "I", "N">>
      THEN [pl |-> [result EXCEPT !.IsBegin = TRUE,
                                  !.Component = IF comp.ok THEN comp.v ELSE @], err |-> NoError]
      ELSE IF rawName = <<"E", "N", "D">>
      THEN [pl |-> [result EXCEPT !.IsEnd = TRUE,
                                  !.Component = IF comp.ok THEN comp.v ELSE @], err |-> NoError]
      ELSE IF prop.ok
      THEN [pl |-> [result EXCEPT !.Property = prop.v], err |-> NoError]
      ELSE [pl |-> [result EXCEPT !.IsUnknown = TRUE], err |-> NoError]

\* ---------------------------------------------- specification: ParseLine
\* The lines ParseLine is applied to: a head, then up to MaxLine characters
\* of LineChars, then a tail.
LineChars == {"a", ":", ";", "=", DQ, LF}

LineHeads ==
  { <<>>, <<"B", "E", "G", "I", "N">>, <<"e", "n", "d">>, <<"S", "U", "M", "M", "A", "R", "Y">>, <<" ", "d", "t", "s", "t", "a", "r", "t", " ">>, <<"X", "-", "F", "O", "O">>, <<"X", "-", "F", "O", "O", ";", "A", "L", "T", "R", "E", "P", "=", "DQ", "a", ":", "b", "DQ">> }

LineTails == { <<>>, <<":", "V", "E", "V", "E", "N", "T">>, <<":", " ", "v", "e", "v", "e", "n", "t", "CR", "LF">>, <<":", "x">> }

LineMids == UNION {[1..n -> LineChars] : n \in 0..MaxLine}

Lines == {h \o m \o t : h \in LineHeads, m \in LineMids, t \in LineTails}

InitLine ==
  /\ InitTree
  /\ glue = NoGlue
  /\ arg \in {[op |-> "ParseLine", line |-> l] : l \in Lines}
  /\ ret = NoCall

CallParseLine ==
  /\ arg.op = "ParseLine"
  /\ ret = NoCall
  /\ ret' = [op |-> "ParseLine", res |-> ParseLine(arg.line)]
  /\ UNCHANGED <<heap, root, sub, hasSub, crashed, out, ref, everInserted,
                 everDeleted, lastOp, trace, glue, arg>>

NextLine == CallParseLine

SpecLine == InitLine /\ [][NextLine]_vars

\* ---------------------------------------------------------- calendar dates
\* the value of a decimal digit, and of a string of decimal digits
isDigit(c) == \E d \in 1..10 : DigitChar[d] = c

digitVal(c) == (CHOOSE d \in 1..10 : DigitChar[d] = c) - 1

atoi(s) ==
  LET v[i \in 0..Len(s)] == IF i = 0 THEN 0 ELSE 10 * v[i - 1] + digitVal(s[i])
  IN  v[Len(s)]

isLeap(year) == year % 4 = 0 /\ (year % 100 # 0 \/ year % 400 = 0)

daysIn(month, year) ==
  IF month = 2 THEN (IF isLeap(year) THEN 29 ELSE 28)
  ELSE IF month \in {4, 6, 9, 11} THEN 30 ELSE 31

\* days from 1970-01-01 to the civil date year-month-day (proleptic Gregorian)
daysSinceEpoch(year, month, day) ==
  LET y == IF month <= 2 THEN year - 1 ELSE year
      era == y \div 400
      yoe == y - era * 400
      mp == IF month > 2 THEN month - 3 ELSE month + 9
      doy == (153 * mp + 2) \div 5 + day - 1
      doe == yoe * 365 + yoe \div 4 - yoe \div 100 + doy
  IN  era * 146097 + doe - 719468

\* time.UTC
UTC == [name |-> <<"U", "T", "C">>, offset |-> 0]

\* time.LoadLocation for the zone names the modelled lines carry: UTC and
\* Asia/Tokyo (nine hours east, no daylight saving in the modelled years) are
\* in the zone database, no other modelled name is
LoadLocation(name) ==
  IF name = <<"U", "T", "C">> THEN [ok |-> TRUE, loc |-> UTC]
  ELSE IF name = <<"A", "s", "i", "a", "/", "T", "o", "k", "y", "o">>
       THEN [ok |-> TRUE, loc |-> [name |-> name, offset |-> 9 * 3600]]
       ELSE [ok |-> FALSE, loc |-> UTC]

\* the three layouts of DateTimeToUnix
formats == << <<"2", "0", "0", "6", "0", "1", "0", "2", "T", "1", "5", "0", "4", "0", "5", "Z">>, <<"2", "0", "0", "6", "0", "1", "0", "2", "T", "1", "5", "0", "4", "0", "5">>, <<"2", "0", "0", "6", "0", "1", "0", "2">> >>

\* time.ParseInLocation(layout, value, loc) followed by Unix(), for the three
\* layouts above: four digits of year, two of month and of day, then for the
\* long layouts a literal T and two digits each of hour, minute and second,
\* then for the first layout a literal Z; every field is range-checked
ParseInLocation(layout, value, loc) ==
  LET digitsAt(a, b) == \A i \in a..b : isDigit(value[i])
      year == atoi(SubSeq(value, 1, 4))
      month == atoi(SubSeq(value, 5, 6))
      day == atoi(SubSeq(value, 7, 8))
      hasTime == Len(layout) >= 15
      hour == IF hasTime THEN atoi(SubSeq(value, 10, 11)) ELSE 0
      min == IF hasTime THEN atoi(SubSeq(value, 12, 13)) ELSE 0
      sec == IF hasTime THEN atoi(SubSeq(value, 14, 15)) ELSE 0
      shapeOK == /\ Len(value) = Len(layout)
                 /\ digitsAt(1, 8)
                 /\ hasTime => value[9] = "T" /\ digitsAt(10, 15)
                 /\ Len(layout) = 16 => value[16] = "Z"
      rangeOK == /\ month \in 1..12
                 /\ hour < 24 /\ min < 60 /\ sec < 60
                 /\ day >= 1 /\ day <= daysIn(month, year)
  IN  IF shapeOK /\ rangeOK
      THEN [ok |-> TRUE,
            unix |-> daysSinceEpoch(year, month, day) * 86400
                       + hour * 3600 + min * 60 + sec - loc.offset]
      ELSE [ok |-> FALSE, unix |-> 0]

paramValue(params, key) ==
  IF \E i \in 1..Len(params) : params[i].Key = key
  THEN LET p == params[CHOOSE i \in 1..Len(params) :
                         /\ params[i].Key = key
                         /\ \A j \in 1..(i - 1) : params[j].Key # key]
           v == p.Value
       IN  IF Len(v) >= 2 /\ v[1] = DQ /\ v[Len(v)] = DQ
           THEN SubSeq(v, 2, Len(v) - 1) ELSE v
  ELSE <<>>

\* the layouts loop of DateTimeToUnix, from layout number i on
tryFormats(raw, loc) ==
  LET try[i \in 1..(Len(formats) + 1)] ==
        IF i > Len(formats)
        THEN [unix |-> 0, err |-> "ics: cannot parse date/time value"]
        ELSE IF Len(raw) # Len(formats[i]) THEN try[i + 1]
        ELSE LET t == ParseInLocation(formats[i], raw, loc)
             IN  IF t.ok THEN [unix |-> t.unix, err |-> NoError] ELSE try[i + 1]
  IN  try[1]

\* mutant of DateTimeToUnix: the TZID parameter is looked at before the Z suffix
DateTimeToUnixTzidFirst(pl) ==
  LET raw == pl.Value
      tzidVal == paramValue(pl.ParsedParams, <<"T", "Z", "I", "D">>)
      loaded == LoadLocation(tzidVal)
      loc == IF tzidVal # <<>> /\ loaded.ok THEN loaded.loc ELSE UTC
  IN  IF pl.Value = <<>> THEN [unix |-> 0, err |-> "ics: empty value in ParsedLine"]
      ELSE tryFormats(raw, loc)

DateTimeToUnix(pl) ==
  LET raw == pl.Value
      tzidVal == paramValue(pl.ParsedParams, <<"T", "Z", "I", "D">>)
      loaded == LoadLocation(tzidVal)
      loc == IF Len(raw) > 0 /\ raw[Len(raw)] = "Z" THEN UTC
             ELSE IF tzidVal # <<>> /\ loaded.ok THEN loaded.loc ELSE UTC
  IN  IF pl.Value = <<>> THEN [unix |-> 0, err |-> "ics: empty value in ParsedLine"]
      ELSE tryFormats(raw, loc)

DtstampToUnix(pl) == DateTimeToUnix(pl)

\* ------------------------------------------ specification: DtstampToUnix
\* The lines the conversion is applied to: DTSTART, an optional parameter
\* list, the separator, and a value made of a date part, a time part and an
\* optional Z.
DateParams ==
  { <<>>, <<";", "T", "Z", "I", "D", "=", "A", "s", "i", "a", "/", "T", "o", "k", "y", "o">>, <<";", "T", "Z", "I", "D", "=", "DQ", "A", "s", "i", "a", "/", "T", "o", "k", "y", "o", "DQ">>, <<";", "T", "Z", "I", "D", "=", "N", "o", "t", "/", "A", "/", "R", "e", "a", "l", "/", "Z", "o", "n", "e">>, <<";", "V", "A", "L", "U", "E", "=", "D", "A", "T", "E", ";", "t", "z", "i", "d", "=", "A", "s", "i", "a", "/", "T", "o", "k", "y", "o">>, <<";", "T", "Z", "I", "D", "=">>, <<";", "T", "Z", "I", "D", "=", "U", "T", "C">> }

DateParts == { <<>>, <<"1", "9", "7", "0", "0", "1", "0", "1">>, <<"2", "0", "2", "4", "0", "2", "2", "9">>, <<"2", "0", "2", "3", "0", "2", "2", "9">>, <<"2", "0", "2", "4", "1", "3", "0", "1">>, <<"2", "0", "2", "4">>, <<"n", "o", "t", "-", "a", "-", "d", "a", "t", "e">> }

TimeParts == { <<>>, <<"T", "0", "0", "0", "0", "0", "0">>, <<"T", "0", "9", "3", "0", "0", "0">>, <<"T", "2", "5", "0", "0", "0", "0">>, <<"T", "0", "9", "3", "0">> }

ZParts == { <<>>, <<"Z">> }

DateLines ==
  { <<"D", "T", "S", "T", "A", "R", "T">> \o p \o <<":">> \o d \o t \o z :
      p \in DateParams, d \in DateParts, t \in TimeParts, z \in ZParts }

InitDate ==
  /\ InitTree
  /\ glue = NoGlue
  /\ arg \in {[op |-> "DtstampToUnix", line |-> l] : l \in DateLines}
  /\ ret = NoCall

\* mustDtstamp of the tests: ParseLine, then DtstampToUnix on its record
CallDtstampToUnix ==
  /\ arg.op = "DtstampToUnix"
  /\ ret = NoCall
  /\ ParseLine(arg.line).err = NoError
  /\ ret' = [op |-> "DtstampToUnix", pl |-> ParseLine(arg.line).pl,
             res |-> DtstampToUnix(ParseLine(arg.line).pl)]
  /\ UNCHANGED <<heap, root, sub, hasSub, crashed, out, ref, everInserted,
                 everDeleted, lastOp, trace, glue, arg>>

NextDate == CallDtstampToUnix

SpecDate == InitDate /\ [][NextDate]_vars

\* ----------------------------------------------- specification: the glue
\* main of the calendar reader.  glue holds its local variables: cal, the
\* number of the calendar being read; insideEvent; maps[c], the content of
\* the one eventMap made for calendar c, a function from Property to pointer;
\* currentCal[c], the variable currentCal of calendar c; n, the rows read so
\* far; done, set once the final Print and Size have run.  events is history:
\* for every t.Insert call, the key and the records eventMap held at the call.
\* A pointer is &parsedRow of one loop iteration (ptr = "row", with the record
\* it points to, which nothing writes afterwards) or &currentCal (ptr =
\* "currentCal", with the calendar whose variable it is).  The value handed to
\* t.Insert is the map itself: a Go map is a reference, so the tree stores the
\* calendar's number, and the content is read through maps.
RowPtr(pl) == [ptr |-> "row", cal |-> 0, pl |-> pl]

CalPtr(c) == [ptr |-> "currentCal", cal |-> c, pl |-> ZeroParsedLine]

\* *p
Deref(g, p) == IF p.ptr = "row" THEN p.pl ELSE g.currentCal[p.cal]

\* m[k] = v
MapSet(m, k, v) == [q \in (DOMAIN m) \cup {k} |-> IF q = k THEN v ELSE m[q]]

\* make(map[ics.Property]*ics.ParsedLine), and the map after clear
EmptyMap == [q \in {} |-> RowPtr(ZeroParsedLine)]

\* the records a map holds
MapRecords(g, m) == {Deref(g, m[q]) : q \in DOMAIN m}

GlueRows ==
  { <<"B", "E", "G", "I", "N", ":", "V", "E", "V", "E", "N", "T", "LF">>, <<"E", "N", "D", ":", "V", "E", "V", "E", "N", "T", "LF">>, <<"D", "T", "S", "T", "A", "R", "T", ":", "1", "9", "7", "0", "0", "1", "0", "1", "T", "0", "0", "0", "0", "0", "1", "Z", "LF">>, <<"D", "T", "S", "T", "A", "R", "T", ";", "T", "Z", "I", "D", "=", "N", "o", "t", "/", "A", "/", "R", "e", "a", "l", "/", "Z", "o", "n", "e", ":", "1", "9", "7", "0", "0", "1", "0", "1", "T", "0", "0", "0", "0", "0", "2", "LF">>, <<"D", "T", "S", "T", "A", "R", "T", ":", "t", "o", "m", "o", "r", "r", "o", "w", "LF">>, <<"S", "U", "M", "M", "A", "R", "Y", ":", "x", "LF">>, <<"S", "U", "M", "M", "A", "R", "Y", ":", "y", "LF">>, <<"X", "-", "W", "R", "-", "C", "A", "L", "N", "A", "M", "E", ":", "c", "LF">>, <<"n", "o", " ", "s", "e", "p", "a", "r", "a", "t", "o", "r", "LF">>, <<"B", "E", "G", "I", "N", ":", "V", "C", "A", "L", "E", "N", "D", "A", "R", "LF">> }

InitGlue ==
  /\ InitTree
  /\ glue = [op |-> "main", cal |-> 1, n |-> 0, insideEvent |-> FALSE,
             maps |-> [c \in 1..MaxCals |-> EmptyMap],
             currentCal |-> [c \in 1..MaxCals |-> ZeroParsedLine],
             events |-> <<>>, done |-> FALSE]
  /\ arg = NoCall
  /\ ret = NoCall

\* the body of the loop for a row that ends an event: the glue after it, and
\* whether and with which key t.Insert(start, eventMap) is called
GlueEndEvent(g) ==
  IF /\ PropDtstart \in DOMAIN g.maps[g.cal]
     /\ DtstampToUnix(Deref(g, g.maps[g.cal][PropDtstart])).err = NoError
  THEN [g |-> [g EXCEPT !.maps[g.cal] = EmptyMap,
                        !.insideEvent = FALSE,
                        !.events = Append(@,
                            [start |-> DtstampToUnix(Deref(g, g.maps[g.cal][PropDtstart])).unix,
                             cal |-> g.cal,
                             own |-> MapRecords(g, MapSet(g.maps[g.cal], PropXWRCalname,
                                                          CalPtr(g.cal)))])],
        insert |-> TRUE,
        start |-> DtstampToUnix(Deref(g, g.maps[g.cal][PropDtstart])).unix]
  ELSE [g |-> [g EXCEPT !.maps[g.cal] = EmptyMap, !.insideEvent = FALSE],
        insert |-> FALSE, start |-> 0]

\* the body of the rows loop for the row ParseLine turned into p, in glue g:
\* the glue after it, and whether and with which key t.Insert is called
GlueStep(g, p) ==
  IF p.err # NoError THEN [g |-> g, insert |-> FALSE, start |-> 0]
  ELSE IF p.pl.Property = PropXWRCalname
       THEN [g |-> [g EXCEPT !.currentCal[g.cal] = p.pl], insert |-> FALSE, start |-> 0]
  ELSE IF p.pl.IsBegin /\ p.pl.Component = ComponentVEvent
       THEN [g |-> [g EXCEPT !.insideEvent = TRUE], insert |-> FALSE, start |-> 0]
  ELSE IF p.pl.IsEnd /\ p.pl.Component = ComponentVEvent
       THEN GlueEndEvent(g)
  ELSE IF ~g.insideEvent THEN [g |-> g, insert |-> FALSE, start |-> 0]
  ELSE [g |-> [g EXCEPT !.maps[g.cal] = MapSet(@, p.pl.Property, RowPtr(p.pl))],
        insert |-> FALSE, start |-> 0]

\* the state after the step: the glue's variables and the tree
GlueApply(step) ==
  /\ glue' = step.g
  /\ IF step.insert THEN TreeInsert(step.start, step.g.cal)
     ELSE UNCHANGED <<heap, root, sub, crashed>>

\* one iteration of the rows loop
GlueRow(row) ==
  /\ glue.op = "main"
  /\ ~glue.done
  /\ ~crashed
  /\ glue.n < MaxRows
  /\ GlueApply(GlueStep([glue EXCEPT !.n = @ + 1], ParseLine(row)))
  /\ UNCHANGED <<hasSub, out, ref, everInserted, everDeleted, lastOp, trace, arg, ret>>

\* the end of one calendar's rows and the start of the next calendar's
GlueNextCalendar ==
  /\ glue.op = "main"
  /\ ~glue.done
  /\ ~crashed
  /\ glue.cal < MaxCals
  /\ glue' = [glue EXCEPT !.cal = @ + 1, !.insideEvent = FALSE]
  /\ UNCHANGED <<heap, root, sub, hasSub, crashed, out, ref, everInserted,
                 everDeleted, lastOp, trace, arg, ret>>

\* t.Print(); log.Println(t.Size())
GlueFinish ==
  /\ glue.op = "main"
  /\ ~glue.done
  /\ ~crashed
  /\ glue' = [glue EXCEPT !.done = TRUE]
  /\ out' = [op |-> "main", key |-> 0, res |-> TreePrint \o <<Digits(TreeSize)>>, n |-> 1]
  /\ UNCHANGED <<heap, root, sub, hasSub, crashed, ref, everInserted,
                 everDeleted, lastOp, trace, arg, ret>>

NextGlue ==
  \/ \E row \in GlueRows : GlueRow(row)
  \/ GlueNextCalendar
  \/ GlueFinish

SpecGlue == InitGlue /\ [][NextGlue]_vars

\* What Min() and Find return in the current state.
ObserveReads ==
    [min  |-> TreeMin,
     find |-> [k \in HistKeys |-> TreeFind(k)]]

\* Insert and Delete calls with any value, where trace remembers the last
\* Insert: its key, what every read operation returned before it, the shape
\* of the tree before it, and whether the next call was the Delete of that key.
NextRound ==
    \/ \E key \in HistKeys, value \in Values :
           /\ Insert(key, value)
           /\ trace' = <<[key |-> key, was |-> Observe, reads |-> ObserveReads,
                          shape |-> Collect(heap, <<root>>), deleted |-> FALSE]>>
           /\ UNCHANGED <<everInserted, everDeleted>>
    \/ \E key \in HistKeys :
           /\ Delete(key)
           /\ trace' = IF trace # <<>> /\ ~trace[1].deleted /\ trace[1].key = key
                       THEN <<[trace[1] EXCEPT !.deleted = TRUE]>>
                       ELSE <<>>
           /\ UNCHANGED <<everInserted, everDeleted>>

SpecRound == Init /\ [][NextRound]_vars

\* ------------------------------------------------------------ validation
\* The true height of the subtree at n: validateAVL's return value.
Height(h, n) ==
    IF n = Nil THEN 0
    ELSE 1 + max(Height(h, h[n].left), Height(h, h[n].right))

\* min and maxVal are keys, or Nil for no bound.
isBST(h, n, min, maxVal) ==
    IF n = Nil THEN TRUE
    ELSE IF min # Nil /\ h[n].key <= min THEN FALSE
    ELSE IF maxVal # Nil /\ h[n].key >= maxVal THEN FALSE
    ELSE /\ isBST(h, h[n].left, min, h[n].key)
         /\ isBST(h, h[n].right, h[n].key, maxVal)

\* The keys in the order traverseString visits them.
InOrder(h, n) ==
    IF n = Nil THEN <<>>
    ELSE InOrder(h, h[n].left) \o <<h[n].key>> \o InOrder(h, h[n].right)

\* The nodes of the tree.
Nodes == {Preorder(heap, root)[i] : i \in 1..Len(Preorder(heap, root))}

\* The keys of the nodes reachable from n.
KeysUnder(h, n) == {h[Preorder(h, n)[i]].key : i \in 1..Len(Preorder(h, n))}

\* The keys on the way from n down to key, the last one being key if it is
\* in the tree.
PathKeys(h, n, key) ==
    IF n = Nil THEN {}
    ELSE IF key = h[n].key THEN {key}
    ELSE IF key < h[n].key THEN {h[n].key} \cup PathKeys(h, h[n].left, key)
    ELSE {h[n].key} \cup PathKeys(h, h[n].right, key)

\* The tree of the handle whose root is r, with its nodes numbered from 1.
TreeOf(h, r) == Collect(h, <<r>>)

abs(x) == IF x < 0 THEN -x ELSE x

\* validateAVL without its return value: at every node under n the true
\* heights of the children differ by at most 1 and the stored height is
\* 1 + the greater of them.
validateAVL(h, n) ==
    IF n = Nil THEN TRUE
    ELSE /\ validateAVL(h, h[n].left)
         /\ validateAVL(h, h[n].right)
         /\ abs(Height(h, h[n].left) - Height(h, h[n].right)) <= 1
         /\ h[n].height = 1 + max(Height(h, h[n].left), Height(h, h[n].right))

\* No key is in two of the nodes reachable from n.
OneNodePerKey(h, n) ==
    \A i, j \in 1..Len(Preorder(h, n)) :
        h[Preorder(h, n)[i]].key = h[Preorder(h, n)[j]].key => i = j

RECURSIVE balanceCallsOfInsert(_, _, _, _)
RECURSIVE balanceCallsOfDelete(_, _, _)

\* The balance() invocations of n.insert(key, value), in the order they are
\* made: each with the heap at the invocation and the receiver.
balanceCallsOfInsert(h, n, key, value) ==
    IF n = Nil THEN <<>>
    ELSE IF key < h[n].key
    THEN LET s == insert(h, h[n].left, key, value) IN
         IF s.r = Fatal THEN balanceCallsOfInsert(h, h[n].left, key, value)
         ELSE balanceCallsOfInsert(h, h[n].left, key, value)
                \o <<[h |-> [s.h EXCEPT ![n].left = s.r], n |-> n]>>
    ELSE IF key > h[n].key
    THEN LET s == insert(h, h[n].right, key, value) IN
         IF s.r = Fatal THEN balanceCallsOfInsert(h, h[n].right, key, value)
         ELSE balanceCallsOfInsert(h, h[n].right, key, value)
                \o <<[h |-> [s.h EXCEPT ![n].right = s.r], n |-> n]>>
    ELSE <<>>

\* The balance() invocations of n.delete(key), in the order they are made.
balanceCallsOfDelete(h, n, key) ==
    IF n = Nil THEN <<>>
    ELSE IF key < h[n].key
    THEN LET s == delete(h, h[n].left, key) IN
         IF s.r = Fatal THEN balanceCallsOfDelete(h, h[n].left, key)
         ELSE balanceCallsOfDelete(h, h[n].left, key)
                \o <<[h |-> [s.h EXCEPT ![n].left = s.r], n |-> n]>>
    ELSE IF key > h[n].key
    THEN LET s == delete(h, h[n].right, key) IN
         IF s.r = Fatal THEN balanceCallsOfDelete(h, h[n].right, key)
         ELSE balanceCallsOfDelete(h, h[n].right, key)
                \o <<[h |-> [s.h EXCEPT ![n].right = s.r], n |-> n]>>
    ELSE IF h[n].left = Nil \/ h[n].right = Nil THEN <<>>
    ELSE LET temp == minValueNode(h, h[n].right)
             h1   == [h EXCEPT ![n].key = h[temp].key, ![n].value = h[temp].value]
             s    == delete(h1, h1[n].right, h1[temp].key)
         IN  IF s.r = Fatal THEN balanceCallsOfDelete(h1, h1[n].right, h1[temp].key)
             ELSE balanceCallsOfDelete(h1, h1[n].right, h1[temp].key)
                    \o <<[h |-> [s.h EXCEPT ![n].right = s.r], n |-> n]>>

\* The balance() invocations one Insert or one Delete call would make on the
\* tree as it is now.
BalanceCalls ==
    UNION {LET ci == balanceCallsOfInsert(heap, root, k, "a")
               cd == balanceCallsOfDelete(heap, root, k)
           IN  {ci[i] : i \in 1..Len(ci)} \cup {cd[i] : i \in 1..Len(cd)} :
           k \in ShapeKeys}

RECURSIVE insertDepth(_, _, _)
RECURSIVE deleteDepth(_, _, _)
RECURSIVE findDepth(_, _, _)

\* The recursion levels of n.insert(key, value): the nested calls of insert,
\* the outermost one and the one on nil included.
insertDepth(h, n, key) ==
    IF n = Nil THEN 1
    ELSE IF key < h[n].key THEN 1 + insertDepth(h, h[n].left, key)
    ELSE IF key > h[n].key THEN 1 + insertDepth(h, h[n].right, key)
    ELSE 1

\* The recursion levels of n.delete(key); at a node with two children the
\* nested delete of the successor's key in the right subtree goes on from
\* the level of that node.
deleteDepth(h, n, key) ==
    IF n = Nil THEN 1
    ELSE IF key < h[n].key THEN 1 + deleteDepth(h, h[n].left, key)
    ELSE IF key > h[n].key THEN 1 + deleteDepth(h, h[n].right, key)
    ELSE IF h[n].left = Nil \/ h[n].right = Nil THEN 1
    ELSE LET temp == minValueNode(h, h[n].right)
             h1   == [h EXCEPT ![n].key = h[temp].key, ![n].value = h[temp].value]
         IN  1 + deleteDepth(h1, h1[n].right, h1[temp].key)

\* The recursion levels of n.find(key).
findDepth(h, n, key) ==
    IF n = Nil THEN 1
    ELSE IF h[n].key = key THEN 1
    ELSE IF key < h[n].key THEN 1 + findDepth(h, h[n].left, key)
    ELSE 1 + findDepth(h, h[n].right, key)

\* The levels of the calls on the handle: Delete and Find return at once on
\* the empty tree.
TreeInsertDepth(key) == insertDepth(heap, root, key)

TreeDeleteDepth(key) == IF root = Nil THEN 0 ELSE deleteDepth(heap, root, key)

TreeFindDepth(key) == IF root = Nil THEN 0 ELSE findDepth(heap, root, key)

\* ---------------------------------------------------------------- claims
\* C1: after any sequence of Insert and Delete calls, the true heights of the
\* two subtrees of every node differ by at most 1.
C1_Balanced ==
    \A n \in Nodes :
        abs(Height(heap, heap[n].left) - Height(heap, heap[n].right)) <= 1

\* A Delete removed a key and left four keys on three levels.
C1_Witness ==
    /\ lastOp.op = "delete" /\ lastOp.vals > 0
    /\ TreeSize = 4 /\ Height(heap, root) = 3

\* C2: after any sequence of Insert and Delete calls, the tree is a strict
\* binary search tree: every key of a left subtree is smaller and every key of
\* a right subtree greater than the node's key, the in-order key sequence is
\* strictly ascending, and no key is in two nodes.
C2_StrictBST ==
    LET io == InOrder(heap, root) IN
    /\ isBST(heap, root, Nil, Nil)
    /\ \A n \in Nodes :
          /\ \A m \in {Preorder(heap, heap[n].left)[i] :
                          i \in 1..Len(Preorder(heap, heap[n].left))} :
                 heap[m].key < heap[n].key
          /\ \A m \in {Preorder(heap, heap[n].right)[i] :
                          i \in 1..Len(Preorder(heap, heap[n].right))} :
                 heap[m].key > heap[n].key
    /\ \A i \in 1..(Len(io) - 1) : io[i] < io[i + 1]
    /\ \A n \in Nodes, m \in Nodes : heap[n].key = heap[m].key => n = m

\* A Delete overwrote a node that had two children with its successor, in a
\* tree that keeps five keys or more.
C2_Witness ==
    /\ lastOp.op = "delete" /\ lastOp.children = 2
    /\ TreeSize >= 5

\* C3: after every Insert and Delete, the cached height of every node is
\* 1 + max of its children's cached heights (0 for an absent child) and is the
\* true height of its subtree; Height() is the true height of the tree.
C3_Heights ==
    /\ \A n \in Nodes :
          /\ heap[n].height = 1 + max(getHeight(heap, heap[n].left),
                                      getHeight(heap, heap[n].right))
          /\ heap[n].height = Height(heap, n)
    /\ TreeHeight = Height(heap, root)

\* An Insert of a new key made the tree four levels high.
C3_Witness ==
    /\ lastOp.op = "insert" /\ lastOp.vals = 0
    /\ TreeHeight = 4

\* C4: Find(k) returns the values inserted under k since the last Delete(k),
\* in insertion order, and found; or the empty sequence and not found when
\* there is none.
C4_FindRefines ==
    \A k \in Keys : TreeFind(k) = [v |-> ref[k], ok |-> ref[k] # <<>>]

\* A second value was appended to a key of a full tree, and a key holds "b"
\* then "a".
C4_Witness ==
    /\ lastOp.op = "insert" /\ lastOp.vals = 1
    /\ TreeSize = MaxKey
    /\ \E k \in Keys : TreeFind(k).v = <<"b", "a">>

\* C5: Contains(k) is the found flag of Find(k), and both are true exactly
\* when k was inserted and not deleted since.
C5_ContainsIsFound ==
    \A k \in Keys :
        /\ TreeContains(k) = TreeFind(k).ok
        /\ TreeContains(k) = (ref[k] # <<>>)

\* A Delete removed a key; a smaller and a greater key stay.
C5_Witness ==
    /\ lastOp.op = "delete" /\ lastOp.vals > 0
    /\ \E k \in Keys :
          /\ ~TreeContains(k)
          /\ \E lo \in Keys, hi \in Keys :
                lo < k /\ k < hi /\ TreeContains(lo) /\ TreeContains(hi)

\* C6: Size() is the number of distinct keys present, not the number of
\* stored values.
C6_SizeCountsKeys ==
    TreeSize = Cardinality({k \in RefKeys : ref[k] # <<>>})

\* An Insert of a key that was present: three keys, four values.
C6_Witness ==
    /\ lastOp.op = "insert" /\ lastOp.vals = 1
    /\ TreeSize = 3
    /\ Extra = 1

\* C7, as claimed: Size() is the number of distinct keys ever inserted minus
\* the number of distinct keys ever deleted, also after a key is inserted
\* again.
C7_EverInsertedMinusEverDeleted ==
    TreeSize = Cardinality(everInserted) - Cardinality(everDeleted)

\* C7, amended: Size() is the number of distinct keys ever inserted minus the
\* number of those that were deleted and not inserted again since.
C7_InsertedMinusNowDeleted ==
    TreeSize = Cardinality(everInserted)
                 - Cardinality({k \in everDeleted : ref[k] = <<>>})

\* One key was deleted and inserted again, another is still deleted.
C7_Witness ==
    /\ \E k \in everDeleted : TreeContains(k)
    /\ \E k \in everDeleted : ~TreeContains(k)

\* C8: Delete(k) of a present key removes the key with all its values:
\* afterwards Contains(k) is false, Find(k) is (empty, false) and Size() is
\* one less.
C8_DeleteRemovesKey ==
    [][\A k \in Keys :
          (Delete(k) /\ TreeContains(k)) =>
              /\ ~TreeContains(k)'
              /\ TreeFind(k)' = [v |-> <<>>, ok |-> FALSE]
              /\ TreeSize' = TreeSize - 1]_vars

\* A Delete removed a key that held two values in a node with two children.
C8_Witness ==
    /\ lastOp.op = "delete"
    /\ lastOp.vals = 2
    /\ lastOp.children = 2

\* C9: Delete(k) leaves Contains(k') and Find(k') of every other key k' as
\* they were.
C9_DeleteFrame ==
    [][\A k \in Keys :
          Delete(k) =>
              \A k2 \in Keys \ {k} :
                  /\ TreeContains(k2)' = TreeContains(k2)
                  /\ TreeFind(k2)' = TreeFind(k2)]_vars

\* A Delete overwrote the root of a three-node tree with its successor, which
\* held two values.
C9_Witness ==
    /\ lastOp.op = "delete" /\ lastOp.children = 2
    /\ TreeSize = 2
    /\ Len(heap[root].value) = 2

\* C10: Delete(k) on an empty tree or of an absent key does not fail and
\* leaves shape, keys, values and cached heights as they were.
C10_DeleteMissIsNoOp ==
    [][\A k \in Keys :
          (Delete(k) /\ ~TreeContains(k)) =>
              /\ UNCHANGED <<heap, root>>
              /\ ~crashed']_vars

\* A Delete of an absent key was called on a tree of two keys.
C10_Witness ==
    /\ lastOp.op = "delete" /\ lastOp.vals = 0
    /\ TreeSize = 2

\* C11: Insert(k, v) of a present key creates no node and rotates nothing: it
\* appends v to the values of k's node and leaves every other field of every
\* node, the root, Size(), Height(), String() and the values of every other
\* key as they were.
C11_InsertPresentAppends ==
    [][\A k \in Keys, v \in Values :
          (Insert(k, v) /\ TreeContains(k)) =>
              /\ heap' = [heap EXCEPT ![findNode(heap, root, k).n].value = Append(@, v)]
              /\ root' = root
              /\ TreeSize' = TreeSize
              /\ TreeHeight' = TreeHeight
              /\ TreeString' = TreeString
              /\ TreeFind(k)' = [v |-> Append(TreeFind(k).v, v), ok |-> TRUE]
              /\ \A k2 \in Keys \ {k} : TreeFind(k2)' = TreeFind(k2)]_vars

\* An Insert of a present key went to a child of the root of a three-node tree.
C11_Witness ==
    /\ lastOp.op = "insert" /\ lastOp.vals = 1
    /\ TreeSize = 3
    /\ Len(heap[root].value) = 1

\* C12: on a tree that holds keys, Min() returns ok = true, the smallest key
\* present and all the values of that key in the order they were inserted; on
\* an empty tree it returns ok = false.
C12_MinIsSmallest ==
    LET present == {k \in RefKeys : ref[k] # <<>>} IN
    IF present = {} THEN ~TreeMin.ok
    ELSE /\ TreeMin.ok
         /\ TreeMin.k \in present
         /\ \A k \in present : TreeMin.k <= k
         /\ TreeMin.v = ref[TreeMin.k]

\* After a Delete, the smallest key holds two values and is not at the root.
C12_Witness ==
    /\ lastOp.op = "delete" /\ lastOp.vals > 0
    /\ TreeMin.ok
    /\ Len(TreeMin.v) = 2
    /\ TreeMin.k # heap[root].key

\* C13: whenever the tree holds no keys, freshly created or after every key
\* was deleted, Height() and Size() are 0, Contains(k) is false and Find(k)
\* finds nothing for every k, Min() returns ok = false and String() is "[]".
C13_EmptyTree ==
    (\A k \in RefKeys : ref[k] = <<>>) =>
        /\ TreeHeight = 0
        /\ TreeSize = 0
        /\ \A k \in RefKeys : ~TreeContains(k) /\ ~TreeFind(k).ok
        /\ ~TreeMin.ok
        /\ TreeString = <<"[", "]">>

\* A Delete removed the last key, which held two values.
C13_Witness ==
    /\ lastOp.op = "delete" /\ lastOp.vals = 2
    /\ \A k \in RefKeys : ref[k] = <<>>

\* C14: inserting 10, 20 and 30 into an empty tree in the order (30,20,10),
\* (10,20,30), (30,10,20) or (10,30,20) leaves 20 at the root with 10 as its
\* left child and 30 as its right child, height 2, and all three keys present.
C14_RotationsRootAtMiddle ==
    trace \in RotOrders =>
        /\ root # Nil
        /\ heap[root].key = 20
        /\ heap[root].left # Nil
        /\ heap[heap[root].left].key = 10
        /\ heap[root].right # Nil
        /\ heap[heap[root].right].key = 30
        /\ TreeHeight = 2
        /\ Height(heap, root) = 2
        /\ \A k \in RotKeys : TreeContains(k)

\* The keys were inserted in the order that needs the right-left rotation.
C14_Witness ==
    /\ trace = <<10, 30, 20>>
    /\ TreeSize = 3

\* C15: a tree of height h holds at least N(h) keys, where N(0) = 0, N(1) = 1
\* and N(h) = N(h-1) + N(h-2) + 1; this is the integer form of the bound
\* height <= 1.44 * log2(n + 2) for n keys.
C15_HeightBound ==
    LET RECURSIVE N(_)
        N(h) == IF h = 0 THEN 0
                ELSE IF h = 1 THEN 1
                ELSE N(h - 1) + N(h - 2) + 1
    IN  TreeSize >= N(TreeHeight)

\* The bound is met exactly: height 4 with the 7 keys N(4) asks for.
C15_Witness ==
    /\ TreeHeight = 4
    /\ TreeSize = 7
    /\ Height(heap, root) = 4

\* C16, as claimed: for every key k, present or not, Insert(k, v) followed at
\* once by Delete(k) leaves Size(), Height(), String() and Contains(k') of
\* every k' as they were before the Insert.
C16_RoundTripEveryKey ==
    (trace # <<>> /\ trace[1].deleted) => Observe = trace[1].was

\* C16, amended: for every key k that was absent, Insert(k, v) followed at
\* once by Delete(k) leaves Size(), Height(), String() and Contains(k') of
\* every k' as they were before the Insert.
C16_RoundTripAbsentKey ==
    (/\ trace # <<>>
     /\ trace[1].deleted
     /\ trace[1].key \notin trace[1].was.contains) => Observe = trace[1].was

\* The key was absent, the Insert rotated it to a node with two children and
\* the Delete removed it from there.
C16_Witness ==
    /\ trace # <<>>
    /\ trace[1].deleted
    /\ trace[1].key \notin trace[1].was.contains
    /\ lastOp.op = "delete" /\ lastOp.children = 2

C18_StringFormat ==
    LET present == {k \in RefKeys : ref[k] # <<>>}
        RECURSIVE Join(_)
        Join(S) == IF S = {} THEN <<>>
                   ELSE LET k == CHOOSE x \in S : \A y \in S : x <= y IN
                        Digits(k) \o (IF S = {k} THEN <<>> ELSE <<",", " ">>)
                                  \o Join(S \ {k})
    IN  TreeString = <<"[">> \o Join(present) \o <<"]">>

\* Three keys, one of them holding two values.
C18_Witness ==
    /\ TreeString = <<"[", "1", ",", " ", "2", ",", " ", "3", "]">>
    /\ Extra = 1

\* C19: SubTreeFromKey(k) returns ok = true exactly when k is present; then
\* the root of the handle it returns is the node of t that holds k, the keys
\* the handle reaches are k and the keys below k in t, and in every case t is
\* as it was before the call.
C19_SubTreeFromKey ==
    [][\A k \in HistKeys :
          SubTreeFromKey(k) =>
              /\ hasSub' = TreeContains(k)
              /\ hasSub' = (ref[k] # <<>>)
              /\ ~hasSub' => sub' = Nil
              /\ hasSub' =>
                    /\ sub' # Nil
                    /\ heap'[sub'].key = k
                    /\ sub' \in {Preorder(heap', root')[i] :
                                    i \in 1..Len(Preorder(heap', root'))}
                    /\ KeysUnder(heap', sub') =
                           {k2 \in RefKeys : /\ ref[k2] # <<>>
                                             /\ k \in PathKeys(heap, root, k2)}
              /\ TreeOf(heap', root') = TreeOf(heap, root)]_vars

\* SubTreeFromKey returned a handle on the root of a three-node tree.
C19_Witness ==
    /\ out.op = "SubTreeFromKey"
    /\ hasSub
    /\ sub = root
    /\ TreeSize = 3

\* C20: while the handle sub that SubTreeFromKey returned is held, a key
\* inserted through sub is found by t.Find and t.Contains, a key of sub
\* deleted through sub is no longer found by t, and an Insert or Delete through
\* t of a key that sub holds shows through sub: sub.Find returns what t.Find
\* returns after the Insert, and sub no longer finds the key after the Delete.
C20_MutationsVisibleThroughBoth ==
    [][\A k \in HistKeys :
          /\ SubInsert(k, "a") => (TreeContains(k)' /\ TreeFind(k)' = SubFind(k)')
          /\ (SubContains(k) /\ SubDelete(k)) => ~TreeContains(k)'
          /\ (hasSub /\ SubContains(k) /\ Insert(k, "a")) =>
                 SubFind(k)' = TreeFind(k)'
          /\ (hasSub /\ SubContains(k) /\ Delete(k)) => ~SubContains(k)']_vars

\* C21: after any sequence of Insert and Delete calls through t and through
\* the handle SubTreeFromKey returned, the tree under each handle's root is a
\* strict binary search tree, is balanced at every node, has correct cached
\* heights and holds each key in one node.
C21_InvariantsUnderAliasing ==
    \A r \in {root, sub} :
        /\ isBST(heap, r, Nil, Nil)
        /\ validateAVL(heap, r)
        /\ OneNodePerKey(heap, r)

\* C23, as claimed: Print() logs exactly the text String() returns in every
\* state, "[]" for the empty tree, and leaves the tree as it was.
C23_PrintLogsString ==
    [][CallPrint =>
          /\ out'.res = <<TreeString>>
          /\ UNCHANGED <<heap, root, crashed>>]_vars

\* C23, amended: on a tree that holds keys Print() logs exactly the text
\* String() returns; on the empty tree it logs "Tried to print empty tree";
\* in both cases it leaves the tree as it was.
C23_PrintLogsStringUnlessEmpty ==
    [][CallPrint =>
          /\ out'.res = IF root = Nil THEN <<EmptyTreeLog>> ELSE <<TreeString>>
          /\ UNCHANGED <<heap, root, crashed>>]_vars

\* Print was called on a tree of three keys, one of them holding two values.
C23_Witness ==
    /\ out.op = "Print"
    /\ TreeSize = 3
    /\ Extra = 1
    /\ out.res = <<TreeString>>

\* C22: no sequence of public operations, through t or through a handle
\* SubTreeFromKey returned, ends in log.Fatal or a nil dereference:
\* updateHeight, rotateRight, rotateLeft and minValueNode always find the
\* node they need.
C22_NoFatal ==
    /\ ~crashed
    /\ \A r \in {root, sub} : r # Nil => minValueNode(heap, r) \in NodeIds

\* While two handles were held, a call through sub was followed by a Delete
\* through t of a node with two children.
C22_Witness ==
    /\ hasSub
    /\ trace = <<"sub", "t">>
    /\ lastOp.op = "delete" /\ lastOp.children = 2
    /\ ~crashed

\* the line has a ':' with an even number of double quotes before it
HasSeparator(line) ==
  \E i \in 1..Len(line) :
    /\ line[i] = ":"
    /\ Cardinality({j \in 1..(i - 1) : line[j] = DQ}) % 2 = 0

\* C25: ParseLine returns an error exactly for the lines with no ':' outside
\* double quotes (the empty line is one of them); a line with such a separator
\* yields a record and no error, and when its name is neither BEGIN nor END nor
\* a key of the property table the record has IsUnknown = TRUE, Property =
\* UnknownProperty, RawName the upper-cased trimmed name and Value the text
\* after the separator.
C25_ParseLineErrorOnlyWithoutSeparator ==
  ret.op = "ParseLine" =>
    LET line == arg.line
        r == ret.res
        i == CHOOSE k \in 1..Len(line) :
               /\ line[k] = ":"
               /\ Cardinality({j \in 1..(k - 1) : line[j] = DQ}) % 2 = 0
               /\ \A g \in 1..(k - 1) :
                    line[g] = ":" => Cardinality({j \in 1..(g - 1) : line[j] = DQ}) % 2 = 1
        head == SubSeq(line, 1, i - 1)
        semi == IndexByte(head, ";")
        name == ToUpper(TrimSpace(IF semi = 0 THEN head ELSE SubSeq(head, 1, semi - 1)))
        known == name \in {e[1] : e \in propertyByName}
        BeginEnd == { <<"B", "E", "G", "I", "N">>, <<"E", "N", "D">> }
    IN  /\ (r.err # NoError) <=> ~HasSeparator(line)
        /\ HasSeparator(line) /\ name \notin BeginEnd /\ ~known =>
             /\ r.pl.IsUnknown
             /\ r.pl.Property = UnknownProperty
             /\ r.pl.RawName = name
             /\ r.pl.Value = TrimRight(SubSeq(line, i + 1, Len(line)), {CR, LF})

C25_Witness ==
  /\ ret.op = "ParseLine"
  /\ ret.res.err = NoError
  /\ ret.res.pl.IsUnknown
  /\ ret.res.pl.RawName = <<"X", "-", "F", "O", "O">>
  /\ Len(ret.res.pl.ParsedParams) = 1
  /\ ret.res.pl.ParsedParams[1].Value = <<DQ, "a", ":", "b", DQ>>
  /\ ret.res.pl.Value = <<"x">>

StoredRecords(id) == MapRecords(glue, glue.maps[id])

\* C24: once all input is processed, every event that was inserted is found
\* under its start timestamp, with one value per event of that timestamp, and
\* among the values Find returns for it is one that holds the event's own
\* records.
C24_FindReturnsEventRecords ==
  (glue.op = "main" /\ glue.done) =>
    \A i \in 1..Len(glue.events) :
      LET e == glue.events[i]
          f == TreeFind(e.start)
      IN  /\ f.ok
          /\ Len(f.v) = Cardinality({j \in 1..Len(glue.events) : glue.events[j].start = e.start})
          /\ \E j \in 1..Len(f.v) : e.own \subseteq StoredRecords(f.v[j])

\* what C27 says of one balance() invocation c
BalanceCallOK(c) ==
    LET n  == c.n
        h  == updateHeight(c.h, n)
        bf == balanceFactor(h, n)
        l  == h[n].left
        r  == h[n].right
        b  == balance(c.h, n)
        LL == rotateRight(h, n)
        LR == LET s == rotateLeft(h, l) IN rotateRight([s.h EXCEPT ![n].left = s.r], n)
        RR == rotateLeft(h, n)
        RL == LET s == rotateRight(h, r) IN rotateLeft([s.h EXCEPT ![n].right = s.r], n)
    IN  /\ validateAVL(c.h, c.h[n].left)
        /\ validateAVL(c.h, c.h[n].right)
        /\ bf \in -2..2
        /\ bf = 2 /\ balanceFactor(h, l) >= 0 => b = LL /\ b.r = l
        /\ bf = 2 /\ balanceFactor(h, l) < 0 => b = LR /\ b.r = h[l].right
        /\ bf = -2 /\ balanceFactor(h, r) <= 0 => b = RR /\ b.r = r
        /\ bf = -2 /\ balanceFactor(h, r) > 0 => b = RL /\ b.r = h[r].left
        /\ bf \in -1..1 => b = [h |-> h, r |-> n]
        /\ b.r # Fatal
        /\ validateAVL(b.h, b.r)
        /\ InOrder(b.h, b.r) = InOrder(c.h, n)
        /\ getSize(b.h, b.r) = getSize(c.h, n)

\* C27: at every balance() invocation of an Insert or a Delete the children
\* are AVL with correct cached heights, the balance factor after updateHeight
\* is in -2..2, the rotation case applied is the one the balance factors
\* select (LL, LR, RR, RL when it is 2 or -2, none otherwise), and the
\* subtree returned is AVL with correct cached heights, the same in-order
\* keys and the same number of nodes.
C27_EveryBalanceCall == ~crashed => \A c \in BalanceCalls : BalanceCallOK(c)

\* among the invocations the next call can make there is a single rotation
\* whose promoted child has balance factor 0
C27_Witness ==
    /\ ~crashed
    /\ \E c \in BalanceCalls :
         LET h == updateHeight(c.h, c.n) IN
         balanceFactor(h, c.n) = -2 /\ balanceFactor(h, h[c.n].right) = 0

\* C28: on every reachable tree, of height h = Height(), one Insert, one
\* Delete (the nested deletion of the successor included) and one Find each
\* end after at most h + 1 recursion levels, whatever the key.
C28_DepthWithinHeight ==
    ~crashed =>
      \A k \in ShapeKeys :
        /\ TreeInsertDepth(k) \in 1..(TreeHeight + 1)
        /\ TreeDeleteDepth(k) \in 0..(TreeHeight + 1)
        /\ TreeFindDepth(k) \in 0..(TreeHeight + 1)

\* a tree of height 3 where an Insert reaches level 4 and the Delete of a key
\* with two children goes on to the lowest level for the successor
C28_Witness ==
    /\ ~crashed
    /\ TreeHeight = 3
    /\ \E k \in ShapeKeys : TreeInsertDepth(k) = 4
    /\ \E k \in ShapeKeys : TreeFindDepth(k) = 4
    /\ \E k \in ShapeKeys : Children(k) = 2 /\ TreeDeleteDepth(k) = 3

\* the balance() invocations of Insert(k, "a") on the tree as it is now that
\* return another subtree root than their receiver: a rotation case applied
RotationsOfInsert(k) ==
    LET ci == balanceCallsOfInsert(heap, root, k, "a")
    IN  {i \in 1..Len(ci) : balance(ci[i].h, ci[i].n).r # ci[i].n}

\* Height() after Insert(k, "a") on the tree as it is now
HeightAfterInsert(k) ==
    LET s == insert(heap, root, k, "a") IN getHeight(s.h, s.r)

\* C29: an Insert applies a rotation case at no more than one node of the
\* search path and leaves Height() unchanged or larger by 1; an Insert of a
\* key that is present applies none.
C29_OneRotationPerInsert ==
    ~crashed =>
      \A k \in ShapeKeys :
        /\ Cardinality(RotationsOfInsert(k)) <= 1
        /\ HeightAfterInsert(k) \in {TreeHeight, TreeHeight + 1}
        /\ TreeContains(k) => RotationsOfInsert(k) = {}

\* an Insert that rotates below the root and leaves the height as it was,
\* and an Insert of a present key that runs balance() on two ancestors
C29_Witness ==
    /\ ~crashed
    /\ \E k \in ShapeKeys :
         /\ ~TreeContains(k)
         /\ RotationsOfInsert(k) = {2}
         /\ Len(balanceCallsOfInsert(heap, root, k, "a")) = 3
         /\ HeightAfterInsert(k) = TreeHeight
    /\ \E k \in ShapeKeys :
         /\ TreeContains(k)
         /\ Len(balanceCallsOfInsert(heap, root, k, "a")) = 2

\* C30: for every key k that is not present, Insert(k, v) followed at once by
\* Delete(k) leaves Size(), Height(), String(), Min(), Contains(k') and the
\* values of Find(k') for every k' as they were before the Insert.
C30_RoundTripRestoresReads ==
    (/\ trace # <<>>
     /\ trace[1].deleted
     /\ trace[1].key \notin trace[1].was.contains) =>
        /\ Observe = trace[1].was
        /\ ObserveReads = trace[1].reads

\* the round trip of an absent key has ended on a tree of another shape, in
\* which a key holds two values
C30_Witness ==
    /\ trace # <<>>
    /\ trace[1].deleted
    /\ trace[1].key \notin trace[1].was.contains
    /\ Collect(heap, <<root>>) # trace[1].shape
    /\ Extra = 1
    /\ ObserveReads = trace[1].reads

====
